---- MODULE Spec2Model ----
(***************************************************************************)
(* Model of the Wake-on-LAN relay, src/wol_relay.py.                       *)
(*                                                                         *)
(* A Python str is a sequence of one-character strings.  A JSON value or   *)
(* an optional query parameter is a record: JNull, or JStr(s).             *)
(***************************************************************************)
EXTENDS Integers, Sequences, FiniteSets, TLC

VARIABLES
    macIn,      \* argument of create_magic_packet (pure-function specification)
    macOut,     \* its outcome: NotRun, a packet, or ValueError
    pc,         \* position of the single-threaded server (HTTPServer.serve_forever)
    req,        \* the request being handled
    local,      \* locals of the running handler (packet, argv, ip, port, ping_ok, ...)
    responses,  \* responses written for the current request
    escaped,    \* an exception left do_GET / do_POST for the current request
    sent,       \* UDP datagrams sent for the current request
    opened,     \* sockets opened for the current request
    probes,     \* liveness probes issued for the current request
    spawned,    \* argument vectors of the child processes started for the current request
    runCalls,   \* argument vectors passed to subprocess.run for the current request
    openSockets,  \* sockets currently open
    liveChildren, \* child processes currently alive
    child,      \* state of the remote-shell child: "none", "running", or its exit code
    sshExtraArgs  \* SSH_EXTRA_ARGS, read from the environment at import

vars == << macIn, macOut, pc, req, local, responses, escaped, sent, opened, probes,
           spawned, runCalls, openSockets, liveChildren, child, sshExtraArgs >>

----------------------------------------------------------------------------
(* Python str and bytes helpers                                             *)

JNull == [t |-> "null"]

JStr(s) == [t |-> "str", v |-> s]

\* Python truthiness of an optional string: None and "" are falsy.
Truthy(x) == x.t = "str" /\ x.v # << >>

\* `a or b` on optional strings.
PyOr(a, b) == IF Truthy(a) THEN a ELSE b

UpperToLower ==
    [A |-> "a", B |-> "b", C |-> "c", D |-> "d", E |-> "e", F |-> "f", G |-> "g",
     H |-> "h", I |-> "i", J |-> "j", K |-> "k", L |-> "l", M |-> "m", N |-> "n",
     O |-> "o", P |-> "p", Q |-> "q", R |-> "r", S |-> "s", T |-> "t", U |-> "u",
     V |-> "v", W |-> "w", X |-> "x", Y |-> "y", Z |-> "z"]

LowerChar(c) == IF c \in DOMAIN UpperToLower THEN UpperToLower[c] ELSE c

\* str.lower()
Lower(s) == [i \in 1..Len(s) |-> LowerChar(s[i])]

\* str.replace(c, "")
RECURSIVE Remove(_, _)
Remove(s, c) ==
    IF s = << >> THEN << >>
    ELSE IF Head(s) = c THEN Remove(Tail(s), c)
         ELSE << Head(s) >> \o Remove(Tail(s), c)

HexDigits == << "0", "1", "2", "3", "4", "5", "6", "7", "8", "9",
                "a", "b", "c", "d", "e", "f" >>

IsHexChar(c) == \E i \in 1..Len(HexDigits) : HexDigits[i] = LowerChar(c)

HexVal(c) == (CHOOSE i \in 1..Len(HexDigits) : HexDigits[i] = LowerChar(c)) - 1

\* The characters bytes.fromhex skips between byte pairs.
AsciiSpace == {" ", "\t"}

ValueError == [kind |-> "ValueError"]

NotRun == [kind |-> "none"]

\* bytes.fromhex(s) from position i: whitespace is skipped before each pair,
\* the two digits of a pair must be adjacent.
RECURSIVE FromHexAt(_, _, _)
FromHexAt(s, i, acc) ==
    IF i > Len(s) THEN [kind |-> "bytes", bytes |-> acc]
    ELSE IF s[i] \in AsciiSpace THEN FromHexAt(s, i + 1, acc)
    ELSE IF ~IsHexChar(s[i]) THEN ValueError
    ELSE IF i + 1 > Len(s) \/ ~IsHexChar(s[i + 1]) THEN ValueError
    ELSE FromHexAt(s, i + 2, Append(acc, 16 * HexVal(s[i]) + HexVal(s[i + 1])))

FromHex(s) == FromHexAt(s, 1, << >>)

\* bytes * n
RECURSIVE Repeat(_, _)
Repeat(b, n) == IF n = 0 THEN << >> ELSE b \o Repeat(b, n - 1)

MacCleanLen == 12

PreambleLen == 6

Repetitions == 16

\* create_magic_packet that strips the colons only
MacClean_KeepHyphen(mac_address) == Lower(Remove(mac_address, ":"))

\* mac_address.replace(":", "").replace("-", "").lower()
MacClean(mac_address) == Lower(Remove(Remove(mac_address, ":"), "-"))

\* the length test only; a true result raises ValueError("Invalid MAC address format")
BadMacLength(mac_clean) == Len(mac_clean) # MacCleanLen

create_magic_packet(mac_address) ==
    LET mac_clean == MacClean(mac_address) IN
    IF BadMacLength(mac_clean) THEN ValueError
    ELSE LET raw == FromHex(mac_clean) IN
         IF raw.kind = "ValueError" THEN ValueError
         ELSE [kind |-> "packet",
               bytes |-> Repeat(<< 255 >>, PreambleLen) \o Repeat(raw.bytes, Repetitions)]

----------------------------------------------------------------------------
(* Inputs of the pure-function specification: MAC strings                   *)

MaxPairs == 7

MaxBlank == 2

PairsLower == << <<"0","1">>, <<"2","3">>, <<"a","b">>, <<"c","d">>, <<"e","f">>, <<"9","a">> >>

PairsUpper == << <<"0","1">>, <<"2","3">>, <<"A","B">>, <<"C","D">>, <<"E","F">>, <<"9","A">> >>

PairsMixed == << <<"0","1">>, <<"2","3">>, <<"a","B">>, <<"C","d">>, <<"E","f">>, <<"9","A">> >>

CaseStyles == { PairsLower, PairsUpper, PairsMixed }

SepStyles == { << "" >>, << ":" >>, << "-" >>, << ":", "-", "" >> }

SepAt(style, i) ==
    LET c == style[((i - 1) % Len(style)) + 1] IN IF c = "" THEN << >> ELSE << c >>

\* n digit pairs, separated according to the style
RECURSIVE BuildMac(_, _, _)
BuildMac(n, pairs, style) ==
    IF n = 0 THEN << >>
    ELSE IF n = 1 THEN pairs[1]
    ELSE BuildMac(n - 1, pairs, style) \o SepAt(style, n - 1)
         \o pairs[((n - 1) % Len(pairs)) + 1]

\* s with the w characters from position p overwritten by c (appended past the end)
Overwrite(s, p, w, c) ==
    [i \in 1..(IF p + w - 1 > Len(s) THEN p + w - 1 ELSE Len(s)) |->
        IF i >= p /\ i < p + w THEN c ELSE s[i]]

CleanMacInputs ==
    { BuildMac(n, pairs, style) : n \in 0..MaxPairs, pairs \in CaseStyles, style \in SepStyles }

DamagedMacInputs ==
    UNION { { Overwrite(s, p, w, c) : p \in 1..(Len(s) + 1), w \in 1..MaxBlank,
                                      c \in {"g", " ", ":"} } : s \in CleanMacInputs }

MacInputs == CleanMacInputs \cup DamagedMacInputs

----------------------------------------------------------------------------
(* Configuration (module level, read once at import)                        *)

BROADCAST_DEST == << "<broadcast>", 9 >>

SSH_BIN == << "s", "s", "h" >>

\* values of WOL_SSH_EXTRA_ARGS; the default is the empty string
SSH_EXTRA_ARGS_Values == { << >>, << " ", " " >>, << "-", "p", " ", "2", "2" >> }

DEFAULT_SLEEP_CMD_LINUX == << "systemctl suspend" >>

DEFAULT_SLEEP_CMD_WINDOWS == << "powershell.exe -Command ..." >>

DEFAULT_SLEEP_CMD_MACOS == << "pmset sleepnow" >>

\* str.strip()
RECURSIVE LStrip(_)
LStrip(s) == IF s # << >> /\ Head(s) \in AsciiSpace THEN LStrip(Tail(s)) ELSE s

RECURSIVE RStrip(_)
RStrip(s) ==
    IF s # << >> /\ s[Len(s)] \in AsciiSpace THEN RStrip(SubSeq(s, 1, Len(s) - 1)) ELSE s

Strip(s) == RStrip(LStrip(s))

\* shlex.split on a string without quotes or escapes: the whitespace-separated words
RECURSIVE SplitWords(_, _, _)
SplitWords(s, word, acc) ==
    IF s = << >> THEN (IF word = << >> THEN acc ELSE Append(acc, word))
    ELSE IF Head(s) \in AsciiSpace
         THEN SplitWords(Tail(s), << >>, IF word = << >> THEN acc ELSE Append(acc, word))
         ELSE SplitWords(Tail(s), Append(word, Head(s)), acc)

ShlexSplit(s) == SplitWords(s, << >>, << >>)

\* " ".join(parts)
RECURSIVE JoinSpace(_)
JoinSpace(parts) ==
    IF parts = << >> THEN << >>
    ELSE IF Len(parts) = 1 THEN parts[1]
    ELSE parts[1] \o << " " >> \o JoinSpace(Tail(parts))

----------------------------------------------------------------------------
(* trigger_sleep: command resolution and the argument vector                *)

OsLinux == { <<"l","i","n","u","x">>, <<"u","n","i","x">> }

OsWindows == { <<"w","i","n","d","o","w","s">>, <<"w","i","n">> }

OsMacos == { <<"m","a","c","o","s">>, <<"m","a","c">>, <<"d","a","r","w","i","n">> }

\* trigger_sleep that falls back to the Linux command for an unknown family
ResolveCommand_DefaultLinux(os_type, custom_command) ==
    IF Truthy(custom_command) THEN [kind |-> "command", command |-> custom_command.v]
    ELSE LET normalized == Lower(PyOr(os_type, JStr(<< >>)).v) IN
         IF normalized \in OsWindows
         THEN [kind |-> "command", command |-> DEFAULT_SLEEP_CMD_WINDOWS]
         ELSE IF normalized \in OsMacos
              THEN [kind |-> "command", command |-> DEFAULT_SLEEP_CMD_MACOS]
         ELSE [kind |-> "command", command |-> DEFAULT_SLEEP_CMD_LINUX]

\* lines 93-104: the command, or ValueError
ResolveCommand(os_type, custom_command) ==
    IF Truthy(custom_command) THEN [kind |-> "command", command |-> custom_command.v]
    ELSE LET normalized == Lower(PyOr(os_type, JStr(<< >>)).v) IN
         IF normalized \in OsLinux THEN [kind |-> "command", command |-> DEFAULT_SLEEP_CMD_LINUX]
         ELSE IF normalized \in OsWindows
              THEN [kind |-> "command", command |-> DEFAULT_SLEEP_CMD_WINDOWS]
         ELSE IF normalized \in OsMacos
              THEN [kind |-> "command", command |-> DEFAULT_SLEEP_CMD_MACOS]
         ELSE ValueError

\* trigger_sleep that appends the command before the host
SshParts_CommandFirst(SSH_EXTRA_ARGS, host, command) ==
    << SSH_BIN >>
    \o (IF Strip(SSH_EXTRA_ARGS) # << >> THEN ShlexSplit(SSH_EXTRA_ARGS) ELSE << >>)
    \o << command >> \o << host >>

\* lines 106-110
SshParts(SSH_EXTRA_ARGS, host, command) ==
    << SSH_BIN >>
    \o (IF Strip(SSH_EXTRA_ARGS) # << >> THEN ShlexSplit(SSH_EXTRA_ARGS) ELSE << >>)
    \o << host >> \o << command >>

----------------------------------------------------------------------------
(* _handle_status: the port parameter                                       *)

DecDigits == { "0", "1", "2", "3", "4", "5", "6", "7", "8", "9" }

RECURSIVE DropZeros(_)
DropZeros(d) == IF Len(d) > 1 /\ Head(d) = "0" THEN DropZeros(Tail(d)) ELSE d

\* A Python int: sign and decimal digits without leading zeros (unbounded).
PyIntOf(neg, digits) ==
    LET d == DropZeros(digits) IN
    [kind |-> "int", neg |-> (neg /\ d # << "0" >>), digits |-> d]

\* int(text) for a str: surrounding whitespace and one sign are accepted, then
\* one or more decimal digits; anything else raises ValueError.
PyInt(text) ==
    LET t == Strip(text)
        signed == t # << >> /\ Head(t) \in {"+", "-"}
        body == IF signed THEN Tail(t) ELSE t
    IN IF body = << >> \/ \E i \in 1..Len(body) : body[i] \notin DecDigits
       THEN ValueError
       ELSE PyIntOf(signed /\ Head(t) = "-", body)

\* a < b for digit strings without leading zeros
RECURSIVE DigitsLess(_, _)
DigitsLess(a, b) ==
    IF Len(a) # Len(b) THEN Len(a) < Len(b)
    ELSE IF a = << >> THEN FALSE
    ELSE IF Head(a) # Head(b) THEN HexVal(Head(a)) < HexVal(Head(b))
    ELSE DigitsLess(Tail(a), Tail(b))

\* LONG_MAX of the C long that socket.getaddrinfo converts the port to
CLongMaxDigits == << "9","2","2","3","3","7","2","0","3","6","8","5","4","7","7","5","8","0","7" >>

\* -LONG_MIN
CLongMinDigits == << "9","2","2","3","3","7","2","0","3","6","8","5","4","7","7","5","8","0","8" >>

\* PyLong_AsLong(port) overflows: OverflowError, which is not an OSError
OverflowsCLong(port) ==
    DigitsLess(IF port.neg THEN CLongMinDigits ELSE CLongMaxDigits, port.digits)

DefaultPort == PyIntOf(FALSE, << "2", "2" >>)

\* parse_qs drops blank values: a parameter given as "" is absent
QueryGet(param) == IF Truthy(param) THEN param ELSE JNull

\* lines 250-258: the port, or ValueError (answered 400 "Invalid port value")
StatusPort(port_param) ==
    LET port_raw == QueryGet(port_param) IN
    IF port_raw = JNull THEN DefaultPort ELSE PyInt(port_raw.v)

\* _handle_status that reads the port probe the wrong way round
Classify_Swapped(ping_ok, tcp_ok) ==
    IF ~ping_ok THEN "offline" ELSE IF tcp_ok THEN "sleeping" ELSE "online"

\* lines 261-265
Classify(ping_ok, tcp_ok) ==
    IF ~ping_ok THEN "offline" ELSE IF tcp_ok THEN "online" ELSE "sleeping"

----------------------------------------------------------------------------
(* Requests                                                                 *)

PathHealth == << "/", "h", "e", "a", "l", "t", "h" >>

PathHealthz == << "/", "h", "e", "a", "l", "t", "h", "z" >>

PathStatus == << "/", "a", "p", "i", "/", "s", "t", "a", "t", "u", "s" >>

PathStatusLong == << "/", "a", "p", "i", "/", "s", "t", "a", "t", "u", "s", "/", "x" >>

PathControl == << "/", "a", "p", "i", "/", "c", "o", "n", "t", "r", "o", "l" >>

PathWake == << "/", "w", "a", "k", "e" >>

PathSleep == << "/", "s", "l", "e", "e", "p" >>

PathOther == << "/", "n", "o", "p", "e" >>

\* str.startswith
StartsWith(s, prefix) == Len(s) >= Len(prefix) /\ SubSeq(s, 1, Len(prefix)) = prefix

Data0 ==
    [action |-> JNull, mac |-> JNull, mac_address |-> JNull, host |-> JNull,
     ip_address |-> JNull, ip |-> JNull, os |-> JNull, command |-> JNull]

MacGood == BuildMac(6, PairsUpper, << ":" >>)

MacGoodPlain == BuildMac(6, PairsLower, << "" >>)

MacShort == BuildMac(2, PairsUpper, << ":" >>)

MacNonHex == Overwrite(MacGoodPlain, 1, 1, "g")

MacBlankTail == Overwrite(MacGoodPlain, 11, 2, " ")

MacValues ==
    { JNull, JStr(<< >>), JStr(MacGood), JStr(MacGoodPlain), JStr(MacShort),
      JStr(MacNonHex), JStr(MacBlankTail) }

OsValues ==
    { JNull, JStr(<< >>), JStr(<< "l", "i", "n", "u", "x" >>), JStr(<< "L", "i", "n", "u", "x" >>),
      JStr(<< "U", "N", "I", "X" >>), JStr(<< "w", "i", "n", "d", "o", "w", "s" >>), JStr(<< "W", "i", "n" >>),
      JStr(<< "m", "a", "c", "o", "s" >>), JStr(<< "M", "A", "C" >>), JStr(<< "D", "a", "r", "w", "i", "n" >>),
      JStr(<< "p", "l", "a", "n", "9" >>) }

CommandValues == { JNull, JStr(<< >>), JStr(<< "poweroff" >>) }

ActionValues ==
    { JNull, JStr(<< "w", "a", "k", "e" >>), JStr(<< "W", "a", "k", "e" >>), JStr(<< "s", "l", "e", "e", "p" >>),
      JStr(<< "S", "L", "E", "E", "P" >>), JStr(<< "r", "e", "b", "o", "o", "t" >>) }

WakeData ==
    { [Data0 EXCEPT !.mac = m, !.mac_address = a] :
        m \in MacValues, a \in { JNull, JStr(MacGood), JStr(MacShort) } }

SleepData ==
    { [Data0 EXCEPT !.host = h, !.ip_address = a, !.ip = i, !.os = o, !.command = c] :
        h \in { JNull, JStr(<< >>), JStr(<< "h" >>) }, a \in { JNull, JStr(<< "a" >>) },
        i \in { JNull, JStr(<< "i" >>) }, o \in OsValues, c \in CommandValues }

ControlData ==
    { [d EXCEPT !.action = a] : d \in WakeData \cup SleepData, a \in ActionValues }

IpValues == { JNull, JStr(<< >>), JStr(<< "10.0.0.5" >>) }

PortValues ==
    { JNull, JStr(<< >>), JStr(<< "2", "2" >>), JStr(<< "8", "0", "8", "0" >>), JStr(<< "0" >>),
      JStr(<< "-", "1" >>), JStr(<< "+", "8" >>), JStr(<< " ", "8", "0", " " >>), JStr(<< "0", "0", "2", "2" >>),
      JStr(<< "a", "b", "c" >>), JStr(<< "2", "x" >>), JStr(<< "6", "5", "5", "3", "5" >>), JStr(<< "6", "5", "5", "3", "6" >>),
      JStr(<< "7", "0", "0", "0", "0" >>), JStr(<< "9", "9", "9", "9", "9", "9", "9", "9", "9", "9", "9", "9", "9", "9", "9", "9", "9", "9", "9", "9" >>) }

Queries == { [t |-> "query", ip |-> i, port |-> p] : i \in IpValues, p \in PortValues }

GetRequests ==
    { [method |-> "GET", path |-> p, q |-> q, clen |-> "ok", body |-> "none", data |-> Data0] :
        p \in { PathHealth, PathHealthz, PathStatus, PathStatusLong, PathOther },
        q \in { JNull } \cup Queries }

PostPaths == { PathControl, PathWake, PathSleep, PathOther }

\* body: "undecodable" is not valid UTF-8, "malformed" is not JSON, "nonobject" is
\* JSON that is no object (a list, a number, null), "object" carries data.
PostRequests ==
    { [method |-> "POST", path |-> p, q |-> q, clen |-> c, body |-> b, data |-> Data0] :
        p \in PostPaths, q \in { JNull, [t |-> "query", ip |-> JNull, port |-> JNull] },
        c \in { "ok", "bad" }, b \in { "undecodable", "malformed", "nonobject", "object" } }
    \cup { [method |-> "POST", path |-> PathWake, q |-> JNull, clen |-> "ok",
            body |-> "object", data |-> d] : d \in WakeData }
    \cup { [method |-> "POST", path |-> PathSleep, q |-> JNull, clen |-> "ok",
            body |-> "object", data |-> d] : d \in SleepData }
    \cup { [method |-> "POST", path |-> PathControl, q |-> JNull, clen |-> "ok",
            body |-> "object", data |-> d] : d \in ControlData }

Requests == GetRequests \cup PostRequests

NoRequest ==
    [method |-> "none", path |-> << >>, q |-> JNull, clen |-> "ok", body |-> "none",
     data |-> Data0]

----------------------------------------------------------------------------
(* Responses and handler outcomes                                           *)

Response0 ==
    [code |-> 0, ctype |-> "none", has_error |-> FALSE, error |-> "", status |-> "",
     has_returncode |-> FALSE, returncode |-> 0, command |-> JNull,
     ip |-> << >>, port |-> JNull, ping |-> FALSE, tcp |-> FALSE]

\* _send_json(status_code, body), the body being {"status": ...} or {"error": ...}
JsonOk(status) == [Response0 EXCEPT !.code = 200, !.ctype = "json", !.status = status]

JsonError(code, message) ==
    [Response0 EXCEPT !.code = code, !.ctype = "json", !.has_error = TRUE, !.error = message]

\* BaseHTTPRequestHandler.send_error(404, "Not Found"): an HTML page
SendError404 == [Response0 EXCEPT !.code = 404, !.ctype = "html"]

\* lines 183-188
SleepFailed(returncode, cmd) ==
    [Response0 EXCEPT !.code = 502, !.ctype = "json", !.has_error = TRUE,
                      !.error = "Sleep command failed", !.has_returncode = TRUE,
                      !.returncode = returncode,
                      !.command = IF cmd # << >> THEN JStr(JoinSpace(cmd)) ELSE JNull]

\* lines 267-276
StatusBody(ip, port, ping_ok, status) ==
    [Response0 EXCEPT !.code = 200, !.ctype = "json", !.status = status, !.ip = ip,
                      !.port = port, !.ping = ping_ok,
                      !.tcp = (ping_ok /\ status = "online")]

Outcome0 == [kind |-> "none", exc |-> "", msg |-> "", packet |-> << >>, argv |-> << >>]

Raise(exc, msg) == [Outcome0 EXCEPT !.kind = "raise", !.exc = exc, !.msg = msg]

\* send_magic_packet up to the socket: line 79
SendMagicPacket(mac_address) ==
    LET packet == create_magic_packet(mac_address) IN
    IF packet.kind = "ValueError" THEN Raise("ValueError", "Invalid MAC address format")
    ELSE [Outcome0 EXCEPT !.kind = "udp", !.packet = packet.bytes]

\* trigger_sleep up to subprocess.run: lines 93-112
TriggerSleep(extra, host, os_type, custom_command) ==
    LET r == ResolveCommand(os_type, custom_command) IN
    IF r.kind = "ValueError"
    THEN Raise("ValueError", "Unknown OS type and no custom command provided")
    ELSE [Outcome0 EXCEPT !.kind = "ssh", !.argv = SshParts(extra, host, r.command)]

\* lines 221-227
HandleWake(data) ==
    LET mac_address == PyOr(data.mac, data.mac_address) IN
    IF ~Truthy(mac_address) THEN Raise("ValueError", "Missing 'mac' parameter")
    ELSE SendMagicPacket(mac_address.v)

\* lines 229-238
HandleSleep(extra, data) ==
    LET host == PyOr(PyOr(data.host, data.ip_address), data.ip) IN
    IF ~Truthy(host) THEN Raise("ValueError", "Missing 'host' or 'ip_address' parameter")
    ELSE TriggerSleep(extra, host.v, data.os, data.command)

\* lines 193-219
HandleControl(extra, data) ==
    LET action == Lower(PyOr(data.action, JStr(<< >>)).v) IN
    IF action \notin { << "w", "a", "k", "e" >>, << "s", "l", "e", "e", "p" >> }
    THEN Raise("ValueError", "Unsupported 'action' value. Use 'wake' or 'sleep'.")
    ELSE IF action = << "w", "a", "k", "e" >>
    THEN LET mac_address == PyOr(data.mac_address, data.mac) IN
         IF ~Truthy(mac_address)
         THEN Raise("ValueError", "Missing 'mac_address' parameter for wake action")
         ELSE SendMagicPacket(mac_address.v)
    ELSE LET host == PyOr(PyOr(data.host, data.ip_address), data.ip) IN
         IF ~Truthy(host)
         THEN Raise("ValueError", "Missing 'ip_address' or 'host' parameter for sleep action")
         ELSE TriggerSleep(extra, host.v, data.os, data.command)

\* self.path == p: the request line's path, query string included
SelfPathIs(r, p) == r.path = p /\ r.q = JNull

\* lines 170-178: the handlers read the body with data.get, which a JSON value
\* that is no object does not have (AttributeError)
Dispatch(extra, r) ==
    IF SelfPathIs(r, PathControl) \/ SelfPathIs(r, PathWake) \/ SelfPathIs(r, PathSleep)
    THEN IF r.body = "nonobject" THEN Raise("AttributeError", "object has no attribute 'get'")
         ELSE IF SelfPathIs(r, PathControl) THEN HandleControl(extra, r.data)
         ELSE IF SelfPathIs(r, PathWake) THEN HandleWake(r.data)
         ELSE HandleSleep(extra, r.data)
    ELSE [Outcome0 EXCEPT !.kind = "send_error"]

\* lines 179-191: what do_POST answers to an exception of the handlers
ExceptResponse(o) ==
    IF o.exc = "ValueError" THEN JsonError(400, o.msg) ELSE JsonError(500, o.msg)

----------------------------------------------------------------------------
(* The server: one request at a time (HTTPServer is not threaded)           *)

Local0 ==
    [packet |-> << >>, argv |-> << >>, ip |-> << >>, port |-> DefaultPort,
     ping_ok |-> FALSE, tcp_ok |-> FALSE]

NoChild == [state |-> "none", code |-> 0]

ExitCodes == { 0, 1, 255, -9 }

\* a socket that is not closed on leaving the block
SocketExit_Leak(n) == n

\* leaving a `with socket...` block closes the socket, on return and on exception
SocketExit(n) == n - 1

\* subprocess.run / check_output return or raise only once the child is reaped
ChildReaped(n) == n - 1

Init ==
    /\ macIn = << >>
    /\ macOut = NotRun
    /\ pc = "idle"
    /\ req = NoRequest
    /\ local = Local0
    /\ responses = << >>
    /\ escaped = FALSE
    /\ sent = << >>
    /\ opened = 0
    /\ probes = << >>
    /\ spawned = << >>
    /\ runCalls = << >>
    /\ openSockets = 0
    /\ liveChildren = 0
    /\ child = NoChild
    /\ sshExtraArgs \in SSH_EXTRA_ARGS_Values

Fixed == UNCHANGED << macIn, macOut, sshExtraArgs >>

\* the request is answered with resp and the handler returns
Answer(resp) == responses' = Append(responses, resp) /\ pc' = "done"

\* handle_one_request reads a request and calls do_GET / do_POST
Receive(r) ==
    /\ pc = "idle"
    /\ pc' = "handle"
    /\ req' = r
    /\ UNCHANGED << local, responses, escaped, sent, opened, probes, spawned, runCalls,
                    openSockets, liveChildren, child >>
    /\ Fixed

\* do_GET, and _handle_status up to the first probe (lines 151-158, 240-258)
DoGET ==
    /\ pc = "handle" /\ req.method = "GET"
    /\ IF SelfPathIs(req, PathHealth) \/ SelfPathIs(req, PathHealthz)
       THEN Answer(JsonOk("ok")) /\ UNCHANGED local
       ELSE IF StartsWith(req.path, PathStatus)
       THEN LET ip == IF req.q = JNull THEN JNull ELSE QueryGet(req.q.ip)
                port == IF req.q = JNull THEN DefaultPort ELSE StatusPort(req.q.port)
            IN IF ~Truthy(ip) THEN Answer(JsonError(400, "IP address required")) /\ UNCHANGED local
               ELSE IF port.kind = "ValueError"
               THEN Answer(JsonError(400, "Invalid port value")) /\ UNCHANGED local
               ELSE /\ pc' = "ping"
                    /\ local' = [local EXCEPT !.ip = ip.v, !.port = port]
                    /\ UNCHANGED responses
       ELSE Answer(SendError404) /\ UNCHANGED local
    /\ UNCHANGED << req, escaped, sent, opened, probes, spawned, runCalls, openSockets,
                    liveChildren, child >>
    /\ Fixed

\* do_POST up to the first socket or child process (lines 160-191)
DoPOST ==
    /\ pc = "handle" /\ req.method = "POST"
    /\ IF req.clen = "bad" \/ req.body = "undecodable"
       THEN \* int() of the header, or json.loads raising UnicodeDecodeError, outside
            \* and beside the except clauses: the exception leaves do_POST
            /\ escaped' = TRUE /\ pc' = "done" /\ UNCHANGED << responses, local >>
       ELSE IF req.body = "malformed"
       THEN Answer(JsonError(400, "Invalid JSON body")) /\ UNCHANGED << escaped, local >>
       ELSE LET o == Dispatch(sshExtraArgs, req) IN
            /\ UNCHANGED escaped
            /\ CASE o.kind = "send_error" -> Answer(SendError404) /\ UNCHANGED local
                 [] o.kind = "raise" -> Answer(ExceptResponse(o)) /\ UNCHANGED local
                 [] o.kind = "udp" ->
                        /\ pc' = "udp_open"
                        /\ local' = [local EXCEPT !.packet = o.packet]
                        /\ UNCHANGED responses
                 [] o.kind = "ssh" ->
                        /\ pc' = "ssh_run"
                        /\ local' = [local EXCEPT !.argv = o.argv]
                        /\ UNCHANGED responses
    /\ UNCHANGED << req, sent, opened, probes, spawned, runCalls, openSockets,
                    liveChildren, child >>
    /\ Fixed

(* send_magic_packet, lines 80-83 *)

UdpOpen ==
    /\ pc = "udp_open"
    /\ pc' = "udp_setsockopt"
    /\ opened' = opened + 1
    /\ openSockets' = openSockets + 1
    /\ UNCHANGED << req, local, responses, escaped, sent, probes, spawned, runCalls,
                    liveChildren, child >>
    /\ Fixed

\* socket.socket raises OSError: no socket exists
UdpOpenFails ==
    /\ pc = "udp_open"
    /\ Answer(JsonError(500, "OSError"))
    /\ UNCHANGED << req, local, escaped, sent, opened, probes, spawned, runCalls,
                    openSockets, liveChildren, child >>
    /\ Fixed

UdpSetSockOpt ==
    /\ pc = "udp_setsockopt"
    /\ pc' = "udp_sendto"
    /\ UNCHANGED << req, local, responses, escaped, sent, opened, probes, spawned,
                    runCalls, openSockets, liveChildren, child >>
    /\ Fixed

UdpSetSockOptFails ==
    /\ pc = "udp_setsockopt"
    /\ openSockets' = SocketExit(openSockets)
    /\ Answer(JsonError(500, "OSError"))
    /\ UNCHANGED << req, local, escaped, sent, opened, probes, spawned, runCalls,
                    liveChildren, child >>
    /\ Fixed

UdpSendTo ==
    /\ pc = "udp_sendto"
    /\ sent' = Append(sent, [payload |-> local.packet, dest |-> BROADCAST_DEST])
    /\ openSockets' = SocketExit(openSockets)
    /\ Answer(JsonOk("success"))
    /\ UNCHANGED << req, local, escaped, opened, probes, spawned, runCalls,
                    liveChildren, child >>
    /\ Fixed

UdpSendToFails ==
    /\ pc = "udp_sendto"
    /\ openSockets' = SocketExit(openSockets)
    /\ Answer(JsonError(500, "OSError"))
    /\ UNCHANGED << req, local, escaped, sent, opened, probes, spawned, runCalls,
                    liveChildren, child >>
    /\ Fixed

(* trigger_sleep, line 113: subprocess.run(ssh_parts, check=True) *)

SshSpawn ==
    /\ pc = "ssh_run"
    /\ pc' = "ssh_wait"
    /\ runCalls' = Append(runCalls, local.argv)
    /\ spawned' = Append(spawned, local.argv)
    /\ liveChildren' = liveChildren + 1
    /\ child' = [state |-> "running", code |-> 0]
    /\ UNCHANGED << req, local, responses, escaped, sent, opened, probes, openSockets >>
    /\ Fixed

\* the remote-shell binary cannot be started (OSError): no child exists
SshSpawnFails ==
    /\ pc = "ssh_run"
    /\ runCalls' = Append(runCalls, local.argv)
    /\ Answer(JsonError(500, "OSError"))
    /\ UNCHANGED << req, local, escaped, sent, opened, probes, spawned, openSockets,
                    liveChildren, child >>
    /\ Fixed

\* the remote command ends: a step of the child, not of the server
SshChildExit(code) ==
    /\ pc = "ssh_wait" /\ child.state = "running"
    /\ child' = [state |-> "exited", code |-> code]
    /\ UNCHANGED << pc, req, local, responses, escaped, sent, opened, probes, spawned,
                    runCalls, openSockets, liveChildren >>
    /\ Fixed

\* subprocess.run waits without a timeout; it returns when the child has ended,
\* and check=True raises CalledProcessError on a non-zero return code
SshWaitReturns ==
    /\ pc = "ssh_wait" /\ child.state = "exited"
    /\ liveChildren' = ChildReaped(liveChildren)
    /\ child' = [child EXCEPT !.state = "reaped"]
    /\ IF child.code = 0 THEN Answer(JsonOk("success"))
       ELSE Answer(SleepFailed(child.code, local.argv))
    /\ UNCHANGED << req, local, escaped, sent, opened, probes, spawned, runCalls,
                    openSockets >>
    /\ Fixed

(* _handle_status from the first probe, lines 260-276; ping_host; check_tcp_port *)

PingArgv(host) == << << "ping" >>, << "-c" >>, << "1" >>, << "-W" >>, << "1000" >>, host >>

PingSpawn ==
    /\ pc = "ping"
    /\ pc' = "ping_wait"
    /\ probes' = Append(probes, [kind |-> "ping", host |-> local.ip, port |-> JNull])
    /\ spawned' = Append(spawned, PingArgv(local.ip))
    /\ liveChildren' = liveChildren + 1
    /\ UNCHANGED << req, local, responses, escaped, sent, opened, runCalls, openSockets,
                    child >>
    /\ Fixed

\* ping cannot be started: `except Exception` turns it into False
PingSpawnFails ==
    /\ pc = "ping"
    /\ pc' = "status_reply"
    /\ probes' = Append(probes, [kind |-> "ping", host |-> local.ip, port |-> JNull])
    /\ local' = [local EXCEPT !.ping_ok = FALSE]
    /\ UNCHANGED << req, responses, escaped, sent, opened, spawned, runCalls, openSockets,
                    liveChildren, child >>
    /\ Fixed

\* ping ends (it gives up by itself): exit status 0 is True, any other is False
PingExit(ok) ==
    /\ pc = "ping_wait"
    /\ liveChildren' = ChildReaped(liveChildren)
    /\ local' = [local EXCEPT !.ping_ok = ok]
    /\ pc' = IF ok THEN "tcp" ELSE "status_reply"
    /\ UNCHANGED << req, responses, escaped, sent, opened, probes, spawned, runCalls,
                    openSockets, child >>
    /\ Fixed

TcpProbe(host, port) == [kind |-> "tcp", host |-> host, port |-> port]

\* the port does not fit a C long: OverflowError leaves check_tcp_port, which
\* catches OSError only, and then _handle_status and do_GET
TcpOverflow ==
    /\ pc = "tcp" /\ OverflowsCLong(local.port)
    /\ probes' = Append(probes, TcpProbe(local.ip, local.port))
    /\ escaped' = TRUE
    /\ pc' = "done"
    /\ UNCHANGED << req, local, responses, sent, opened, spawned, runCalls, openSockets,
                    liveChildren, child >>
    /\ Fixed

\* refused, timed out, unresolvable: OSError, any socket of the attempt is closed
TcpConnectFails ==
    /\ pc = "tcp" /\ ~OverflowsCLong(local.port)
    /\ probes' = Append(probes, TcpProbe(local.ip, local.port))
    /\ local' = [local EXCEPT !.tcp_ok = FALSE]
    /\ pc' = "status_reply"
    /\ UNCHANGED << req, responses, escaped, sent, opened, spawned, runCalls, openSockets,
                    liveChildren, child >>
    /\ Fixed

\* a connection needs a port above 0; one above 65535 is reduced by the resolver
TcpConnect ==
    /\ pc = "tcp" /\ ~OverflowsCLong(local.port)
    /\ ~local.port.neg /\ local.port.digits # << "0" >>
    /\ probes' = Append(probes, TcpProbe(local.ip, local.port))
    /\ opened' = opened + 1
    /\ openSockets' = openSockets + 1
    /\ pc' = "tcp_connected"
    /\ UNCHANGED << req, local, responses, escaped, sent, spawned, runCalls,
                    liveChildren, child >>
    /\ Fixed

\* `with socket.create_connection(...): return True`
TcpClose ==
    /\ pc = "tcp_connected"
    /\ openSockets' = SocketExit(openSockets)
    /\ local' = [local EXCEPT !.tcp_ok = TRUE]
    /\ pc' = "status_reply"
    /\ UNCHANGED << req, responses, escaped, sent, opened, probes, spawned, runCalls,
                    liveChildren, child >>
    /\ Fixed

StatusReply ==
    /\ pc = "status_reply"
    /\ Answer(StatusBody(local.ip, local.port, local.ping_ok,
                         Classify(local.ping_ok, local.tcp_ok)))
    /\ UNCHANGED << req, local, escaped, sent, opened, probes, spawned, runCalls,
                    openSockets, liveChildren, child >>
    /\ Fixed

\* the handler has returned and serve_forever takes the next request; what was
\* recorded about the request is dropped, what the process holds is not
Finish ==
    /\ pc = "done"
    /\ pc' = "idle"
    /\ req' = NoRequest
    /\ local' = Local0
    /\ responses' = << >>
    /\ escaped' = FALSE
    /\ sent' = << >>
    /\ opened' = 0
    /\ probes' = << >>
    /\ spawned' = << >>
    /\ runCalls' = << >>
    /\ child' = NoChild
    /\ UNCHANGED << openSockets, liveChildren >>
    /\ Fixed

\* every step inside send_magic_packet, trigger_sleep, ping_host, check_tcp_port
\* and the reply that follows, the ping child's included
CallStep ==
    \/ UdpOpen
    \/ UdpOpenFails
    \/ UdpSetSockOpt
    \/ UdpSetSockOptFails
    \/ UdpSendTo
    \/ UdpSendToFails
    \/ SshSpawn
    \/ SshSpawnFails
    \/ SshWaitReturns
    \/ PingSpawn
    \/ PingSpawnFails
    \/ \E ok \in BOOLEAN : PingExit(ok)
    \/ TcpOverflow
    \/ TcpConnectFails
    \/ TcpConnect
    \/ TcpClose
    \/ StatusReply
    \/ Finish

Next ==
    \/ \E r \in Requests : Receive(r)
    \/ DoGET
    \/ DoPOST
    \/ CallStep
    \/ \E code \in ExitCodes : SshChildExit(code)

Spec == Init /\ [][Next]_vars

\* The server thread runs on: a handler that has made its call takes every step
\* it can take.  Nothing obliges a request to arrive or the remote command to end.
FairSpec == Spec /\ WF_vars(CallStep)

----------------------------------------------------------------------------
(* create_magic_packet on its own                                           *)

InitMac ==
    /\ macIn \in MacInputs
    /\ macOut = NotRun
    /\ pc = "idle"
    /\ req = NoRequest
    /\ local = Local0
    /\ responses = << >>
    /\ escaped = FALSE
    /\ sent = << >>
    /\ opened = 0
    /\ probes = << >>
    /\ spawned = << >>
    /\ runCalls = << >>
    /\ openSockets = 0
    /\ liveChildren = 0
    /\ child = NoChild
    /\ sshExtraArgs = << >>

Encode ==
    /\ macOut = NotRun
    /\ macOut' = create_magic_packet(macIn)
    /\ UNCHANGED << macIn, pc, req, local, responses, escaped, sent, opened, probes,
                    spawned, runCalls, openSockets, liveChildren, child, sshExtraArgs >>

NextMac == Encode

SpecMac == InitMac /\ [][NextMac]_vars

----------------------------------------------------------------------------
(* Properties of create_magic_packet (under SpecMac)                        *)

\* the hexadecimal digits a MAC string reduces to: separators removed, lower case
Digits(mac) == Lower(SelectSeq(mac, LAMBDA c : c \notin { ":", "-" }))

ReducesToTwelveHex(mac) ==
    /\ Len(Digits(mac)) = 12
    /\ \A i \in 1..12 : IsHexChar(Digits(mac)[i])

\* the six raw address bytes of a MAC string that reduces to twelve digits
RawAddress(mac) ==
    [k \in 1..6 |-> 16 * HexVal(Digits(mac)[2 * k - 1]) + HexVal(Digits(mac)[2 * k])]

Encoded == macOut.kind # "none"

\* C1: a MAC string that reduces to exactly 12 hexadecimal digits (any mix of ':'
\* and '-', any case) gives a 102-byte packet: 6 bytes 0xFF, then the 6 address
\* bytes 16 times; strings that reduce to the same digits give the same packet.
C1_PacketLayout ==
    (Encoded /\ ReducesToTwelveHex(macIn)) =>
        /\ macOut.kind = "packet"
        /\ Len(macOut.bytes) = 102
        /\ \A i \in 1..6 : macOut.bytes[i] = 255
        /\ \A i \in 1..96 : macOut.bytes[6 + i] = RawAddress(macIn)[((i - 1) % 6) + 1]
        /\ \A other \in CleanMacInputs :
              Digits(other) = Digits(macIn) => create_magic_packet(other) = macOut

\* a valid address written with both separators and both letter cases was encoded
C1_Witness ==
    /\ macIn = BuildMac(6, PairsMixed, << ":", "-", "" >>)
    /\ macOut.kind = "packet"

\* C2: a string that does not reduce to exactly 12 hexadecimal digits is refused
\* with ValueError and no packet is returned.
C2_InvalidMacRaises ==
    (Encoded /\ ~ReducesToTwelveHex(macIn)) => macOut = ValueError

----------------------------------------------------------------------------
(* Properties of the request handlers (under Spec)                          *)

Answered == pc = "done"

IsStatusQuery(r) == r.method = "GET" /\ StartsWith(r.path, PathStatus)

PortSupplied(r) == r.q # JNull /\ r.q.port.t = "str" /\ r.q.port.v # << >>

\* the supplied text is an integer from 1 to 65535
IsPortNumber(text) ==
    LET n == PyInt(text) IN
    /\ n.kind = "int"
    /\ ~n.neg
    /\ n.digits # << "0" >>
    /\ ~DigitsLess(<< "6", "5", "5", "3", "5" >>, n.digits)

IpSupplied(r) == r.q # JNull /\ r.q.ip.t = "str" /\ r.q.ip.v # << >>

\* an address is named and the port is absent or a port number
IsValidStatusQuery(r) ==
    /\ IsStatusQuery(r) /\ IpSupplied(r)
    /\ PortSupplied(r) => IsPortNumber(r.q.port.v)

StatusFollowsProbes(resp) ==
    /\ resp.status \in { "offline", "online", "sleeping" }
    /\ resp.status = "offline" <=> ~local.ping_ok
    /\ resp.status = "online" <=> (local.ping_ok /\ local.tcp_ok)
    /\ resp.status = "sleeping" <=> (local.ping_ok /\ ~local.tcp_ok)
    /\ resp.ping = local.ping_ok
    /\ resp.tcp = (local.ping_ok /\ local.tcp_ok)
    /\ ~local.ping_ok => \A i \in 1..Len(probes) : probes[i].kind = "ping"

\* C3: the status of a validated status query is a function of the two probe
\* outcomes: offline iff ping fails (the port probe is then not consulted),
\* online iff ping and the port probe succeed, sleeping iff ping succeeds and
\* the port probe fails.  Every valid query gets such a status, and so does
\* every query the handler answers after probing.
C3_StatusClassification ==
    /\ (IsValidStatusQuery(req) /\ Answered) =>
          /\ ~escaped
          /\ Len(responses) = 1
          /\ responses[1].code = 200
          /\ StatusFollowsProbes(responses[1])
    /\ (IsStatusQuery(req) /\ probes # << >>) =>
          \A i \in 1..Len(responses) :
              responses[i].code = 200 /\ StatusFollowsProbes(responses[i])

\* a host that answers ping and refuses the port was reported as sleeping
C3_Witness ==
    /\ IsStatusQuery(req) /\ Answered /\ Len(responses) = 1
    /\ local.ping_ok /\ ~local.tcp_ok
    /\ Len(probes) = 2
    /\ responses[1].status = "sleeping"

\* the request reaches trigger_sleep: a decoded JSON object on /sleep, or on
\* /api/control with action sleep, that names a host
HostOf(r) == PyOr(PyOr(r.data.host, r.data.ip_address), r.data.ip)

IsSleepCall(r) ==
    /\ r.method = "POST" /\ r.clen = "ok" /\ r.body = "object" /\ r.q = JNull
    /\ \/ r.path = PathSleep
       \/ /\ r.path = PathControl
          /\ r.data.action.t = "str"
          /\ Lower(r.data.action.v) = << "s", "l", "e", "e", "p" >>
    /\ Truthy(HostOf(r))

HasOverride(r) == r.data.command.t = "str" /\ r.data.command.v # << >>

FamilyName(r) == IF r.data.os.t = "str" THEN Lower(r.data.os.v) ELSE << >>

\* the fixed table of the specification
TableCommand(family) ==
    IF family \in { << "l", "i", "n", "u", "x" >>, << "u", "n", "i", "x" >> } THEN << DEFAULT_SLEEP_CMD_LINUX >>
    ELSE IF family \in { << "w", "i", "n", "d", "o", "w", "s" >>, << "w", "i", "n" >> } THEN << DEFAULT_SLEEP_CMD_WINDOWS >>
    ELSE IF family \in { << "m", "a", "c", "o", "s" >>, << "m", "a", "c" >>, << "d", "a", "r", "w", "i", "n" >> }
    THEN << DEFAULT_SLEEP_CMD_MACOS >>
    ELSE << >>

Resolves(r) == HasOverride(r) \/ TableCommand(FamilyName(r)) # << >>

ExpectedCommand(r) ==
    IF HasOverride(r) THEN r.data.command.v ELSE TableCommand(FamilyName(r))[1]

Dispatched == pc \notin { "idle", "handle" }

\* C4: a non-empty override command is used verbatim whatever os_family is;
\* otherwise the lower-cased os_family selects the configured command; with
\* neither, resolution fails with an error and no command is chosen.
C4_SleepResolution ==
    (IsSleepCall(req) /\ Dispatched) =>
        IF Resolves(req)
        THEN /\ local.argv # << >>
             /\ local.argv[Len(local.argv)] = ExpectedCommand(req)
             /\ \A i \in 1..Len(runCalls) :
                   runCalls[i][Len(runCalls[i])] = ExpectedCommand(req)
        ELSE /\ local.argv = << >>
             /\ runCalls = << >>
             /\ spawned = << >>
             /\ Answered
             /\ Len(responses) = 1
             /\ responses[1].code = 400
             /\ responses[1].has_error

\* an override was run for a family the table does not know
C4_Witness ==
    /\ IsSleepCall(req)
    /\ req.data.os = JStr(<< "p", "l", "a", "n", "9" >>)
    /\ req.data.command = JStr(<< "poweroff" >>)
    /\ Len(runCalls) = 1
    /\ runCalls[1][Len(runCalls[1])] = << "poweroff" >>

NoSideEffect ==
    /\ sent = << >>
    /\ opened = 0
    /\ probes = << >>
    /\ spawned = << >>
    /\ runCalls = << >>

IsKnownPost(r) ==
    /\ r.method = "POST" /\ r.clen = "ok" /\ r.q = JNull
    /\ r.path \in { PathWake, PathSleep, PathControl }

ActionOf(r) == IF r.data.action.t = "str" THEN Lower(r.data.action.v) ELSE << >>

IsWake(r) ==
    /\ IsKnownPost(r) /\ r.body = "object"
    /\ r.path = PathWake \/ (r.path = PathControl /\ ActionOf(r) = << "w", "a", "k", "e" >>)

IsSleep(r) ==
    /\ IsKnownPost(r) /\ r.body = "object"
    /\ r.path = PathSleep \/ (r.path = PathControl /\ ActionOf(r) = << "s", "l", "e", "e", "p" >>)

\* the address a wake request names: "mac" first on /wake, "mac_address" first
\* on /api/control
MacOf(r) ==
    IF r.path = PathWake THEN PyOr(r.data.mac, r.data.mac_address)
    ELSE PyOr(r.data.mac_address, r.data.mac)

ValidationFails(r) ==
    \/ IsKnownPost(r) /\ r.body \in { "malformed", "nonobject" }
    \/ IsWake(r) /\ (~Truthy(MacOf(r)) \/ ~ReducesToTwelveHex(MacOf(r).v))
    \/ IsSleep(r) /\ (~Truthy(HostOf(r)) \/ ~Resolves(r))
    \/ IsStatusQuery(r) /\ (~IpSupplied(r) \/ (PortSupplied(r) /\ ~IsPortNumber(r.q.port.v)))

\* C5: a request with a validation failure is answered 400, and no datagram is
\* sent, no socket opened, no probe issued and no child process started for it.
C5_ValidationBeforeEffects ==
    ValidationFails(req) =>
        /\ NoSideEffect
        /\ ~escaped
        /\ Answered => (Len(responses) = 1 /\ responses[1].code = 400)

\* C6: a supplied port that is not a positive integer is answered 400 with a JSON
\* error body and no probe runs with it; an absent port defaults to 22.
C6_PortValidated ==
    (IsStatusQuery(req) /\ IpSupplied(req)) =>
        IF PortSupplied(req)
        THEN ~IsPortNumber(req.q.port.v) =>
                /\ probes = << >>
                /\ Answered => /\ Len(responses) = 1
                               /\ responses[1].code = 400
                               /\ responses[1].ctype = "json"
                               /\ responses[1].has_error
        ELSE Dispatched => local.port = DefaultPort

\* the argument vector the specification gives for a sleep request
ExpectedArgv(r) ==
    << SSH_BIN >> \o ShlexSplit(sshExtraArgs) \o << HostOf(r).v, ExpectedCommand(r) >>

\* C7 as stated: exactly one child process is started for a sleep request whose
\* host is present and whose command resolves.
C7_ExactlyOneChild ==
    (IsSleepCall(req) /\ Resolves(req) /\ Answered) =>
        /\ Len(spawned) = 1
        /\ spawned[1] = ExpectedArgv(req)

\* C7, amended: exactly one attempt to start the child, with the argument vector
\* [shell_binary, ...extra_args, host, resolved_command], and at most one child;
\* a child that exits non-zero gives 502 with an error field, the exit code and
\* the command line; the child is never run again; 200 only after a zero exit.
C7_SingleAttempt ==
    (IsSleepCall(req) /\ Resolves(req)) =>
        /\ Len(runCalls) <= 1
        /\ Len(spawned) <= 1
        /\ \A i \in 1..Len(spawned) : spawned[i] = runCalls[i]
        /\ Answered =>
              /\ runCalls = << ExpectedArgv(req) >>
              /\ Len(responses) = 1
              /\ (spawned # << >> /\ child.code # 0) =>
                    /\ responses[1].code = 502
                    /\ responses[1].ctype = "json"
                    /\ responses[1].has_error /\ responses[1].error # ""
                    /\ responses[1].has_returncode
                    /\ responses[1].returncode = child.code
                    /\ responses[1].command = JStr(JoinSpace(ExpectedArgv(req)))
              /\ (spawned # << >> /\ child.code = 0) => responses[1].code = 200
              /\ responses[1].code = 200 => (spawned # << >> /\ child.code = 0)
              /\ spawned = << >> => responses[1].code = 500

\* the remote command of a /sleep request exited with code 1 and 502 was answered
C7_Witness ==
    /\ IsSleepCall(req) /\ Answered /\ Len(responses) = 1
    /\ req.data.os = JStr(<< "w", "i", "n", "d", "o", "w", "s" >>)
    /\ child = [state |-> "reaped", code |-> 1]
    /\ responses[1].code = 502

\* C8: a request that does not succeed ends with exactly one response, a JSON
\* object with an 'error' field; no exception leaves the handler.
C8_EveryFailureIsJsonError ==
    Answered =>
        /\ ~escaped
        /\ Len(responses) = 1
        /\ responses[1].code # 200 => (responses[1].ctype = "json" /\ responses[1].has_error)

\* C9: the UDP socket is open only inside send_magic_packet, the TCP connection
\* only inside check_tcp_port, a child only while it is waited for; between
\* requests the relay holds no open socket and no live child.
C9_ResourcesScoped ==
    /\ openSockets \in
          (IF pc \in { "udp_setsockopt", "udp_sendto", "tcp_connected" } THEN { 1 } ELSE { 0 })
    /\ liveChildren \in (IF pc \in { "ssh_wait", "ping_wait" } THEN { 1 } ELSE { 0 })

\* a wake request whose socket was opened and whose send failed has been answered
C9_Witness ==
    /\ Answered /\ Len(responses) = 1
    /\ opened = 1 /\ sent = << >>
    /\ responses[1].code = 500
    /\ openSockets = 0

----------------------------------------------------------------------------
(* Termination (under FairSpec)                                             *)

\* C10: every sleep request is eventually answered, even when the remote
\* command never ends.
C10_SleepAlwaysAnswered == (pc = "ssh_wait") ~> Answered

\* a wake request, which waits for nothing outside the server, is always answered
WakeAlwaysAnswered == (pc = "udp_open") ~> Answered

====
